---- MODULE Spec2Model ----
(***************************************************************************)
(* Model of the edge control-plane of Enque-Backend:                       *)
(*   - RealtimeHandler (cloudflare/src/durable-objects/realtime.ts): the   *)
(*     WebSocket hub that keeps a session registry and fans frames out;    *)
(*   - rateLimitMiddleware (cloudflare/src/middleware/rate-limit.ts): the  *)
(*     fixed-window limiter on top of the KV namespace CACHE.              *)
(***************************************************************************)
EXTENDS Integers, Sequences, FiniteSets, Bags, TLC

(***************************************************************************)
(* Bounds of the model.                                                    *)
(***************************************************************************)
MaxSockets == 3
TimeStep == 500
MaxHubTime == 500

Sockets == 1..MaxSockets
Workspaces == {"W1", "W2"}

\* url.searchParams.get returns null when the parameter is missing.
Absent == "<null>"

\* The agentId and workspaceId parameters of the upgrade requests: two
\* agents of W1 and one of W2, and requests with a parameter empty or missing.
Logins == {<<"A1", "W1">>, <<"A2", "W1">>, <<"A1", "W2">>}
BadLogins == {<<"", "W1">>, <<Absent, "W2">>, <<"A1", "">>, <<"A2", Absent>>, <<Absent, Absent>>}

\* The value of the Upgrade header: the expected one, another one, or none.
UpgradeValues == {"websocket", "h2c", Absent}

StatusSwitching == 101
StatusBadRequest == 400
StatusUpgradeRequired == 426

VARIABLES
    sessions,   \* RealtimeHandler.sessions: socket -> [agentId, workspaceId]
    conn,       \* state of each server-side socket: "none", "open", "broken"
    clock,      \* Date.now()
    sent,       \* ws.send calls of the last hub operation, per socket
    lastOp,     \* the last hub operation, its inputs and its outcome
    first       \* per open socket, the first frame delivered on its connection

hubVars == <<sessions, conn, sent, lastOp, first>>

(***************************************************************************)
(* Inbound frames.  A frame is a string or an ArrayBuffer; a string is     *)
(* parsed by JSON.parse, which throws or yields a value that need not be   *)
(* an object.                                                              *)
(***************************************************************************)
TextPing == "{\"type\":\"ping\"}"
TextSubscribe == "{\"type\":\"subscribe\",\"payload\":\"tickets\"}"
TextSubscribeBare == "{\"type\":\"subscribe\"}"
TextBroadcast == "{\"type\":\"broadcast\",\"payload\":{\"x\":1}}"
TextBroadcastForged == "{\"type\":\"broadcast\",\"payload\":{\"x\":1},\"workspaceId\":\"W2\",\"timestamp\":7}"
TextUnknown == "{\"type\":\"typing\",\"payload\":\"t1\"}"
TextGarbage == "{not json"
TextNull == "null"
TextNumber == "42"

Texts == {TextPing, TextSubscribe, TextSubscribeBare, TextBroadcast, TextBroadcastForged,
          TextUnknown, TextGarbage, TextNull, TextNumber}

InboundFrames == [isString : {TRUE}, text : Texts] \cup [isString : {FALSE}, text : {""}]

NoFrame == [isString |-> FALSE, text |-> "<none>"]

\* JSON.parse on the frames above: kind "throw" is a SyntaxError, otherwise
\* the parsed value; an object is a function from its own keys.
JsonParse(text) ==
    CASE text = TextPing -> [kind |-> "object", obj |-> [type |-> "ping"]]
      [] text = TextSubscribe -> [kind |-> "object", obj |-> [type |-> "subscribe", payload |-> "tickets"]]
      [] text = TextSubscribeBare -> [kind |-> "object", obj |-> [type |-> "subscribe"]]
      [] text = TextBroadcast -> [kind |-> "object", obj |-> [type |-> "broadcast", payload |-> "{\"x\":1}"]]
      [] text = TextBroadcastForged ->
            [kind |-> "object",
             obj |-> [type |-> "broadcast", payload |-> "{\"x\":1}", workspaceId |-> "W2", timestamp |-> 7]]
      [] text = TextUnknown -> [kind |-> "object", obj |-> [type |-> "typing", payload |-> "t1"]]
      [] text = TextNull -> [kind |-> "null", obj |-> [none |-> TRUE]]
      [] text = TextNumber -> [kind |-> "number", obj |-> [none |-> TRUE]]
      [] OTHER -> [kind |-> "throw", obj |-> [none |-> TRUE]]

\* data.type: a TypeError on null, undefined on a non-object or a missing key.
ThrowsOnType(parsed) == parsed.kind \in {"throw", "null"}
TypeOf(parsed) ==
    IF parsed.kind = "object" /\ "type" \in DOMAIN parsed.obj THEN parsed.obj.type ELSE "undefined"

\* Mutant of Stamp: { timestamp: Date.now(), ...message }, the timestamp of
\* the message wins.
StampUnlessStamped(message, now) ==
    [f \in DOMAIN message \cup {"timestamp"} |->
        IF f \in DOMAIN message THEN message[f] ELSE now]

\* JSON.stringify({...message, timestamp: Date.now()}): the own keys of the
\* message, with timestamp added or overwritten.
Stamp(message, now) ==
    [f \in DOMAIN message \cup {"timestamp"} |-> IF f = "timestamp" THEN now ELSE message[f]]

\* Mutant of SubscribedFrame: the acknowledgement names the type of the
\* frame in the place of its payload.
SubscribedFrameOfType(obj, now) ==
    [type |-> "subscribed", payload |-> obj.type, timestamp |-> now]

\* JSON.stringify drops a key whose value is undefined.
SubscribedFrame(obj, now) ==
    IF "payload" \in DOMAIN obj
    THEN [type |-> "subscribed", payload |-> obj.payload, timestamp |-> now]
    ELSE [type |-> "subscribed", timestamp |-> now]

PongFrame(now) == [type |-> "pong", timestamp |-> now]

ErrorFrame(now) ==
    [type |-> "error", payload |-> [message |-> "Failed to process message"], timestamp |-> now]

\* Mutant of ConnectedFrame: the two identifiers change places.
ConnectedFrameSwapped(workspaceId, agentId, now) ==
    [type |-> "connected",
     payload |-> [message |-> "Connected to Enque real-time server",
                  workspaceId |-> agentId, agentId |-> workspaceId],
     timestamp |-> now]

ConnectedFrame(workspaceId, agentId, now) ==
    [type |-> "connected",
     payload |-> [message |-> "Connected to Enque real-time server",
                  workspaceId |-> workspaceId, agentId |-> agentId],
     timestamp |-> now]

(***************************************************************************)
(* ws.send: throws when the socket is no longer open.                      *)
(***************************************************************************)
NoSends == [w \in Sockets |-> <<>>]
SendOk(c, ws) == c[ws] = "open"
Attempt(c, ws, frame) == [frame |-> frame, ok |-> SendOk(c, ws)]

\* Mutant of MapDelete: Map.clear in the place of Map.delete.
MapDeleteClear(m, keys) == [w \in {} |-> m[w]]

\* Map.delete
MapDelete(m, keys) == [w \in DOMAIN m \ keys |-> m[w]]

(***************************************************************************)
(* RealtimeHandler.broadcast: one send to every session of the workspace,  *)
(* a session whose send throws is deleted from the map.                    *)
(***************************************************************************)
\* Mutant of Recipients: a workspace without sessions falls back to all of
\* them.
RecipientsOrAll(m, workspaceId) ==
    IF \E w \in DOMAIN m : m[w].workspaceId = workspaceId
    THEN {w \in DOMAIN m : m[w].workspaceId = workspaceId}
    ELSE DOMAIN m

\* Mutant of Recipients: the comparison of the workspace is missing.
RecipientsAll(m, workspaceId) == DOMAIN m

Recipients(m, workspaceId) == {w \in DOMAIN m : m[w].workspaceId = workspaceId}

\* Mutant of BroadcastSends: the exception of a failing send is not caught
\* inside the loop and ends it, the sessions after the failing one get no send.
BroadcastSendsAbort(m, c, message, workspaceId, now) ==
    [w \in Sockets |->
        IF /\ w \in Recipients(m, workspaceId)
           /\ \A v \in Recipients(m, workspaceId) : v < w => SendOk(c, v)
        THEN <<Attempt(c, w, Stamp(message, now))>>
        ELSE <<>>]

\* Mutant of BroadcastSends: the loop runs over an index into the entries,
\* and the entry that follows a deleted one is stepped over.
BroadcastSendsSkipNext(m, c, message, workspaceId, now) ==
    [w \in Sockets |->
        IF /\ w \in Recipients(m, workspaceId)
           /\ \A v \in Recipients(m, workspaceId) :
                 (v < w /\ \A u \in Recipients(m, workspaceId) : ~(v < u /\ u < w)) => SendOk(c, v)
        THEN <<Attempt(c, w, Stamp(message, now))>>
        ELSE <<>>]

\* Mutant of BroadcastSends: the catch block of the loop sends once more
\* before it gives the session up.
BroadcastSendsRetry(m, c, message, workspaceId, now) ==
    [w \in Sockets |->
        IF w \in Recipients(m, workspaceId)
        THEN IF SendOk(c, w)
             THEN <<Attempt(c, w, Stamp(message, now))>>
             ELSE <<Attempt(c, w, Stamp(message, now)), Attempt(c, w, Stamp(message, now))>>
        ELSE <<>>]

BroadcastSends(m, c, message, workspaceId, now) ==
    [w \in Sockets |->
        IF w \in Recipients(m, workspaceId)
        THEN <<Attempt(c, w, Stamp(message, now))>>
        ELSE <<>>]

\* Mutant of BroadcastSessions: the catch block of the loop logs only.
BroadcastSessionsKeep(m, c, workspaceId) == m

\* Mutant of BroadcastSessions: every session whose socket does not take a
\* send is deleted, whatever its workspace.
BroadcastSessionsSweep(m, c, workspaceId) ==
    MapDelete(m, {w \in DOMAIN m : ~SendOk(c, w)})

BroadcastSessions(m, c, workspaceId) ==
    MapDelete(m, {w \in Recipients(m, workspaceId) : ~SendOk(c, w)})

NoData == [none |-> TRUE]

\* The record of one hub operation: its inputs, the registry and the sockets
\* as it found them, and its outcome.
Op(op, ws, arg, message, data, threw, status) ==
    [op |-> op, ws |-> ws, arg |-> arg, message |-> message, data |-> data,
     pre |-> sessions, now |-> clock, threw |-> threw, status |-> status]

\* No hub operation: the last step was not one.
NoOp == [op |-> "none", ws |-> 0, arg |-> "", message |-> NoFrame, data |-> NoData,
         pre |-> <<>>, now |-> 0, threw |-> FALSE, status |-> 0]

HubInit ==
    /\ sessions = <<>>
    /\ conn = [w \in Sockets |-> "none"]
    /\ sent = NoSends
    /\ lastOp = NoOp
    /\ first = [w \in Sockets |-> <<>>]

(***************************************************************************)
(* RealtimeHandler.fetch                                                   *)
(***************************************************************************)
\* Mutant of Falsy: a test against null only, the empty string passes.
FalsyNullOnly(v) == v = Absent

\* !v for a string or null
Falsy(v) == v = Absent \/ v = ""

\* The upgrade request as the hub's last operation keeps it.
Request(upgrade, agentId, workspaceId) ==
    [upgrade |-> upgrade, agentId |-> agentId, workspaceId |-> workspaceId]

FetchReject(upgrade, agentId, workspaceId) ==
    /\ upgrade # "websocket" \/ Falsy(agentId) \/ Falsy(workspaceId)
    /\ lastOp' = Op("fetch", 0, workspaceId, NoFrame, Request(upgrade, agentId, workspaceId), FALSE,
                    IF upgrade # "websocket" THEN StatusUpgradeRequired ELSE StatusBadRequest)
    /\ sent' = NoSends
    /\ UNCHANGED <<sessions, conn>>

\* Mutant of FreshSocket: the pair may be a socket that is in use.
FreshSocketOrUsed(ws) == conn[ws] # "broken"

\* new WebSocketPair(): a socket that did not exist before.
FreshSocket(ws) == conn[ws] = "none" /\ \A w \in Sockets : conn[w] = "none" => ws <= w

\* Mutant of FetchAccept: the session is stored and the welcome message is
\* not sent.
FetchAcceptSilent(ws, upgrade, agentId, workspaceId) ==
    /\ upgrade = "websocket" /\ ~Falsy(agentId) /\ ~Falsy(workspaceId)
    /\ FreshSocket(ws)
    /\ conn' = [conn EXCEPT ![ws] = "open"]
    /\ sessions' = [w \in DOMAIN sessions \cup {ws} |->
                      IF w = ws THEN [agentId |-> agentId, workspaceId |-> workspaceId]
                      ELSE sessions[w]]
    /\ sent' = NoSends
    /\ lastOp' = Op("fetch", ws, workspaceId, NoFrame, Request(upgrade, agentId, workspaceId), FALSE,
                    StatusSwitching)

FetchAccept(ws, upgrade, agentId, workspaceId) ==
    /\ upgrade = "websocket" /\ ~Falsy(agentId) /\ ~Falsy(workspaceId)
    /\ FreshSocket(ws)
    /\ conn' = [conn EXCEPT ![ws] = "open"]
    /\ sessions' = [w \in DOMAIN sessions \cup {ws} |->
                      IF w = ws THEN [agentId |-> agentId, workspaceId |-> workspaceId]
                      ELSE sessions[w]]
    /\ sent' = [NoSends EXCEPT ![ws] = <<Attempt(conn', ws, ConnectedFrame(workspaceId, agentId, clock))>>]
    /\ lastOp' = Op("fetch", ws, workspaceId, NoFrame, Request(upgrade, agentId, workspaceId), FALSE,
                    StatusSwitching)

Fetch ==
    \E upgrade \in UpgradeValues, login \in Logins \cup BadLogins :
        \/ FetchReject(upgrade, login[1], login[2])
        \/ \E ws \in Sockets : FetchAccept(ws, upgrade, login[1], login[2])

(***************************************************************************)
(* RealtimeHandler.webSocketMessage                                        *)
(***************************************************************************)
\* A direct reply inside the try block: when ws.send throws, the catch
\* block sends the error frame on the same socket, which throws again and
\* leaves the handler as an exception.
DirectReply(c, ws, frame, now) ==
    IF SendOk(c, ws)
    THEN [sends |-> <<Attempt(c, ws, frame)>>, threw |-> FALSE]
    ELSE [sends |-> <<Attempt(c, ws, frame), Attempt(c, ws, ErrorFrame(now))>>, threw |-> TRUE]

\* Mutant of CatchReply: the catch block logs and sends nothing.
CatchReplySilent(c, ws, now) ==
    [sends |-> <<>>, threw |-> FALSE]

CatchReply(c, ws, now) ==
    [sends |-> <<Attempt(c, ws, ErrorFrame(now))>>, threw |-> ~SendOk(c, ws)]

NoReply == [sends |-> <<>>, threw |-> FALSE]

\* Mutant of HandleDirect: the break of case 'ping' is missing, the ping
\* falls through to case 'subscribe'.
HandleDirectFallThrough(c, ws, message, now) ==
    LET parsed == JsonParse(message.text) IN
    IF ~message.isString THEN NoReply
    ELSE IF ThrowsOnType(parsed) THEN CatchReply(c, ws, now)
    ELSE IF TypeOf(parsed) = "ping"
    THEN IF SendOk(c, ws)
         THEN [sends |-> <<Attempt(c, ws, PongFrame(now)),
                           Attempt(c, ws, SubscribedFrame(parsed.obj, now))>>, threw |-> FALSE]
         ELSE DirectReply(c, ws, PongFrame(now), now)
    ELSE IF TypeOf(parsed) = "subscribe" THEN DirectReply(c, ws, SubscribedFrame(parsed.obj, now), now)
    ELSE NoReply

\* Mutant of HandleDirect: the default case throws, the catch block answers
\* with the error frame.
HandleDirectDefaultThrows(c, ws, message, now) ==
    LET parsed == JsonParse(message.text) IN
    IF ~message.isString THEN NoReply
    ELSE IF ThrowsOnType(parsed) THEN CatchReply(c, ws, now)
    ELSE IF TypeOf(parsed) = "ping" THEN DirectReply(c, ws, PongFrame(now), now)
    ELSE IF TypeOf(parsed) = "subscribe" THEN DirectReply(c, ws, SubscribedFrame(parsed.obj, now), now)
    ELSE CatchReply(c, ws, now)

\* Mutant of HandleDirect: a frame that is not a string is parsed as well,
\* the parse throws and the catch block answers with the error frame.
HandleDirectBinaryThrows(c, ws, message, now) ==
    LET parsed == JsonParse(message.text) IN
    IF ~message.isString THEN CatchReply(c, ws, now)
    ELSE IF ThrowsOnType(parsed) THEN CatchReply(c, ws, now)
    ELSE IF TypeOf(parsed) = "ping" THEN DirectReply(c, ws, PongFrame(now), now)
    ELSE IF TypeOf(parsed) = "subscribe" THEN DirectReply(c, ws, SubscribedFrame(parsed.obj, now), now)
    ELSE NoReply

HandleDirect(c, ws, message, now) ==
    LET parsed == JsonParse(message.text) IN
    IF ~message.isString THEN NoReply
    ELSE IF ThrowsOnType(parsed) THEN CatchReply(c, ws, now)
    ELSE IF TypeOf(parsed) = "ping" THEN DirectReply(c, ws, PongFrame(now), now)
    ELSE IF TypeOf(parsed) = "subscribe" THEN DirectReply(c, ws, SubscribedFrame(parsed.obj, now), now)
    ELSE NoReply

\* Mutant of BroadcastScope: the workspace named by the frame is preferred.
BroadcastScopeFromFrame(session, data) ==
    IF "workspaceId" \in DOMAIN data THEN data.workspaceId ELSE session.workspaceId

\* this.broadcast(data, session.workspaceId): the workspace of the fan-out
\* is the one the sender's session is bound to.
BroadcastScope(session, data) == session.workspaceId

IsBroadcast(message) ==
    /\ message.isString
    /\ ~ThrowsOnType(JsonParse(message.text))
    /\ TypeOf(JsonParse(message.text)) = "broadcast"

\* Mutant of WebSocketMessage: the lookup of the session does not end the
\* handler; a frame of a socket without a session is handled, and reading
\* the workspace of the missing session throws into the catch block.
WebSocketMessageUnguarded(ws, message) ==
    /\ conn[ws] # "none"
    /\ IF ws \notin DOMAIN sessions
       THEN LET r == IF IsBroadcast(message)
                     THEN CatchReply(conn, ws, clock)
                     ELSE HandleDirect(conn, ws, message, clock) IN
            /\ sent' = [NoSends EXCEPT ![ws] = r.sends]
            /\ lastOp' = Op("message", ws, "", message, NoData, r.threw, 0)
            /\ UNCHANGED <<sessions, conn>>
       ELSE IF IsBroadcast(message)
       THEN LET data == JsonParse(message.text).obj
                workspaceId == BroadcastScope(sessions[ws], data) IN
            /\ sent' = BroadcastSends(sessions, conn, data, workspaceId, clock)
            /\ sessions' = BroadcastSessions(sessions, conn, workspaceId)
            /\ lastOp' = Op("message", ws, workspaceId, message, data, FALSE, 0)
            /\ UNCHANGED conn
       ELSE LET r == HandleDirect(conn, ws, message, clock) IN
            /\ sent' = [NoSends EXCEPT ![ws] = r.sends]
            /\ lastOp' = Op("message", ws, sessions[ws].workspaceId, message, NoData, r.threw, 0)
            /\ UNCHANGED <<sessions, conn>>

WebSocketMessage(ws, message) ==
    /\ conn[ws] # "none"
    /\ IF ws \notin DOMAIN sessions
       THEN /\ sent' = NoSends
            /\ lastOp' = Op("message", ws, "", message, NoData, FALSE, 0)
            /\ UNCHANGED <<sessions, conn>>
       ELSE IF IsBroadcast(message)
       THEN LET data == JsonParse(message.text).obj
                workspaceId == BroadcastScope(sessions[ws], data) IN
            /\ sent' = BroadcastSends(sessions, conn, data, workspaceId, clock)
            /\ sessions' = BroadcastSessions(sessions, conn, workspaceId)
            /\ lastOp' = Op("message", ws, workspaceId, message, data, FALSE, 0)
            /\ UNCHANGED conn
       ELSE LET r == HandleDirect(conn, ws, message, clock) IN
            /\ sent' = [NoSends EXCEPT ![ws] = r.sends]
            /\ lastOp' = Op("message", ws, sessions[ws].workspaceId, message, NoData, r.threw, 0)
            /\ UNCHANGED <<sessions, conn>>

(***************************************************************************)
(* RealtimeHandler.webSocketClose / webSocketError                         *)
(***************************************************************************)
WebSocketClose(ws) ==
    /\ conn[ws] # "none"
    /\ sessions' = MapDelete(sessions, {ws})
    /\ conn' = [conn EXCEPT ![ws] = "none"]
    /\ sent' = NoSends
    /\ lastOp' = Op("close", ws, "", NoFrame, NoData, FALSE, 0)

\* An error leaves the socket unusable; its close event follows.
WebSocketError(ws) ==
    /\ conn[ws] # "none"
    /\ sessions' = MapDelete(sessions, {ws})
    /\ conn' = [conn EXCEPT ![ws] = "broken"]
    /\ sent' = NoSends
    /\ lastOp' = Op("error", ws, "", NoFrame, NoData, FALSE, 0)

(***************************************************************************)
(* RealtimeHandler.notifyClients                                           *)
(***************************************************************************)
NotifyMessages ==
    {[type |-> "ticket_updated", payload |-> "t1"],
     [type |-> "comment_added", payload |-> "c1", workspaceId |-> "W2", timestamp |-> 7]}

NotifyClients(workspaceId, message) ==
    /\ sent' = BroadcastSends(sessions, conn, message, workspaceId, clock)
    /\ sessions' = BroadcastSessions(sessions, conn, workspaceId)
    /\ lastOp' = Op("notify", 0, workspaceId, NoFrame, message, FALSE, 0)
    /\ UNCHANGED conn

(***************************************************************************)
(* The environment of the hub: a peer goes away (every later send on the   *)
(* socket throws until its close event is delivered), and time passes.     *)
(***************************************************************************)
SocketBreaks(ws) ==
    /\ conn[ws] = "open"
    /\ conn' = [conn EXCEPT ![ws] = "broken"]
    /\ UNCHANGED <<sessions, sent, lastOp>>

Tick(max) ==
    /\ clock + TimeStep <= max
    /\ clock' = clock + TimeStep

\* lastOp and sent describe the operation of the last step: the hub takes
\* its next event when they are dropped.
Quiet == lastOp.op = "none"

Settle ==
    /\ ~Quiet
    /\ lastOp' = NoOp
    /\ sent' = NoSends
    /\ UNCHANGED <<sessions, conn>>

\* The frame as the peer reads it, its timestamp left aside.
Unstamped(frame) == [k \in DOMAIN frame \ {"timestamp"} |-> frame[k]]

\* The sends of one operation that were delivered, in their order.
Delivered(sends) == SelectSeq(sends, LAMBDA a : a.ok)

\* The first frame delivered on each connection once an operation has made
\* the sends s and left the sockets as c: nothing for a socket that delivers
\* no more, the frame already noted, or the first send of s that was
\* delivered.
FirstAfter(f, s, c) ==
    [w \in Sockets |->
        IF c[w] # "open" THEN <<>>
        ELSE IF f[w] # <<>> THEN f[w]
        ELSE IF Delivered(s[w]) # <<>> THEN <<Unstamped(Delivered(s[w])[1].frame)>>
        ELSE <<>>]

\* Every hub operation notes the frames it delivered first.
NoteFirst == first' = FirstAfter(first, sent', conn')

(***************************************************************************)
(* rateLimitMiddleware                                                     *)
(***************************************************************************)
MaxHandlers == 2
MaxTime == 2000
ApiLimit == 2
AuthLimit == 1
WindowMs == 1000
MsPerSecond == 1000
StatusTooManyRequests == 429

\* The checks of one key that the model follows inside one window.
MaxChecks == ApiLimit + 2

\* RateLimits: the named policies, scaled down to the bounds above.
RateLimits ==
    [auth |-> [maxRequests |-> AuthLimit, windowMs |-> WindowMs, keyPrefix |-> "rl:auth"],
     api |-> [maxRequests |-> ApiLimit, windowMs |-> WindowMs, keyPrefix |-> "rl:api"]]

\* Who calls: c.get('agent')?.id and the CF-Connecting-IP header.
CallerAgent == [agent |-> "A1", ip |-> "10.0.0.1"]
CallerAddress == [agent |-> Absent, ip |-> "10.0.0.1"]
CallerUnknown == [agent |-> Absent, ip |-> Absent]

\* The requests of the model, a policy and a caller each: those that run
\* concurrently share one key, those that run one after the other use two
\* policies and two callers.
Requests == {<<"api", CallerAddress>>}
SeqRequests == {<<"api", CallerAgent>>, <<"auth", CallerUnknown>>}

\* The requests that meet on one identity under two policies and on one
\* policy with two identities, and the time they are followed for.
KeyRequests == {<<"api", CallerAgent>>, <<"auth", CallerAgent>>, <<"auth", CallerUnknown>>}
MaxKeysTime == 500

Identifier(caller) ==
    IF ~Falsy(caller.agent) THEN caller.agent
    ELSE IF ~Falsy(caller.ip) THEN caller.ip
    ELSE "anonymous"

\* Mutant of KeyOf: the identifier is left out of the key.
KeyOfPolicy(config, caller) == config.keyPrefix

KeyOf(config, caller) == config.keyPrefix \o ":" \o Identifier(caller)

\* Math.ceil(a / b) for b > 0
Ceil(a, b) == -((-a) \div b)

VARIABLES
    enabled,    \* c.env.ENABLE_RATE_LIMITING
    cache,      \* c.env.CACHE: key -> [count, resetAt, expireAt]
    handler,    \* the invocations of the middleware that are under way (a bag)
    lastCall,   \* the invocation that ended in the last step, and how
    win,        \* per key: the window opened by a check on a fresh key
    admitted    \* per key: the requests forwarded since its record got its resetAt

limiterVars == <<enabled, cache, handler, lastCall, win, admitted>>
vars == <<sessions, conn, clock, sent, lastOp, first, enabled, cache, handler, lastCall, win, admitted>>

NoRecord == [count |-> 0, resetAt |-> 0]

\* CACHE.get(key, 'json'): null for a key that is missing or has expired.
KvGet(kv, key, time) ==
    IF key \in DOMAIN kv /\ time < kv[key].expireAt
    THEN [count |-> kv[key].count, resetAt |-> kv[key].resetAt]
    ELSE NoRecord

\* CACHE.put(key, value, { expirationTtl }): the key expires ttl seconds later.
KvPut(kv, key, value, ttl, time) ==
    [k \in DOMAIN kv \cup {key} |->
        IF k = key
        THEN [count |-> value.count, resetAt |-> value.resetAt, expireAt |-> time + ttl * MsPerSecond]
        ELSE kv[k]]

\* now > currentData.resetAt
Expired(currentData, now) == now > currentData.resetAt

\* Mutant of LimitExceeded: > in the place of >=.
LimitExceededStrict(currentData, config) == currentData.count > config.maxRequests

\* currentData.count >= maxRequests
LimitExceeded(currentData, config) == currentData.count >= config.maxRequests

\* The branch the middleware takes on what it read.
Branch(currentData, now, config) ==
    IF currentData = NoRecord THEN "fresh"
    ELSE IF Expired(currentData, now) THEN "reset"
    ELSE IF LimitExceeded(currentData, config) THEN "reject"
    ELSE "increment"

\* Mutant of PutValue: the increment starts the window again.
PutValueExtends(branch, currentData, now, config) ==
    IF branch = "increment"
    THEN [count |-> currentData.count + 1, resetAt |-> now + config.windowMs]
    ELSE [count |-> 1, resetAt |-> now + config.windowMs]

\* The value and the expirationTtl of the CACHE.put of each admitting branch.
PutValue(branch, currentData, now, config) ==
    IF branch = "increment"
    THEN [count |-> currentData.count + 1, resetAt |-> currentData.resetAt]
    ELSE [count |-> 1, resetAt |-> now + config.windowMs]

PutTtl(branch, currentData, now, config) ==
    IF branch = "increment"
    THEN Ceil(currentData.resetAt - now, MsPerSecond)
    ELSE Ceil(config.windowMs, MsPerSecond)

NoHeaders == <<>>

\* Mutant of RejectHeaders: Math.floor in the place of Math.ceil.
RejectHeadersFloor(currentData, now, config) ==
    [ContentType |-> "application/json",
     RetryAfter |-> ToString((currentData.resetAt - now) \div MsPerSecond),
     XRateLimitLimit |-> ToString(config.maxRequests),
     XRateLimitRemaining |-> "0",
     XRateLimitReset |-> ToString(currentData.resetAt)]

\* The headers of the 429 response.
RejectHeaders(currentData, now, config) ==
    [ContentType |-> "application/json",
     RetryAfter |-> ToString(Ceil(currentData.resetAt - now, MsPerSecond)),
     XRateLimitLimit |-> ToString(config.maxRequests),
     XRateLimitRemaining |-> "0",
     XRateLimitReset |-> ToString(currentData.resetAt)]

\* The headers set on c.res before next() by each admitting branch.
AdmitHeaders(branch, currentData, now, config) ==
    IF branch = "increment"
    THEN [XRateLimitLimit |-> ToString(config.maxRequests),
          XRateLimitRemaining |-> ToString(config.maxRequests - currentData.count - 1),
          XRateLimitReset |-> ToString(currentData.resetAt)]
    ELSE IF branch = "fresh"
    THEN [XRateLimitLimit |-> ToString(config.maxRequests),
          XRateLimitRemaining |-> ToString(config.maxRequests - 1),
          XRateLimitReset |-> ToString(now + config.windowMs)]
    ELSE NoHeaders

\* Mutant of StoreOnReject: the rejected request is counted too.
StoreOnRejectCounts(kv, key, currentData, now) ==
    [kv EXCEPT ![key].count = @ + 1]

\* The 429 block returns without a call of CACHE.put: the store after it.
StoreOnReject(kv, key, currentData, now) == kv

\* Mutant of NextCalls: the 429 block does not return, the rejected request
\* runs on to next() as well.
NextCallsAfterReject(branch, storeError) ==
    IF storeError THEN 0 ELSE 1

\* The calls of next() an invocation has made when it ends: none when a
\* store call rejected (the exception leaves before line 92) or when the
\* 429 response is returned, one in every other case.
NextCalls(branch, storeError) ==
    IF storeError \/ branch = "reject" THEN 0 ELSE 1

\* One invocation of the middleware between two of its awaits.
Invocation(pc, policy, key) ==
    [pc |-> pc, policy |-> policy, key |-> key, now |-> 0, read |-> NoRecord,
     branch |-> "", put |-> NoRecord, ttl |-> 0, idx |-> 0]

\* How an invocation ended: "forward" (next() was called), "reject" (429
\* returned, next() not called) or "throw" (the store call rejected and the
\* exception left the middleware).
Call(inv, outcome, status, headers, storeError) ==
    [policy |-> inv.policy, key |-> inv.key, now |-> inv.now, read |-> inv.read,
     branch |-> inv.branch, idx |-> inv.idx, outcome |-> outcome, status |-> status,
     headers |-> headers, storeError |-> storeError, pre |-> cache,
     prevAt |-> -1, prevHeaders |-> NoHeaders,
     put |-> inv.put, forwards |-> NextCalls(inv.branch, storeError)]

NoCall == [policy |-> "", key |-> "", now |-> 0, read |-> NoRecord, branch |-> "", idx |-> 0,
           outcome |-> "none", status |-> 0, headers |-> NoHeaders, storeError |-> FALSE,
           pre |-> <<>>, prevAt |-> -1, prevHeaders |-> NoHeaders,
           put |-> NoRecord, forwards |-> 0]

\* The window a check on a fresh key opens lasts until its resetAt; the
\* checks decided inside it are counted, and its last rejection is kept
\* (rejAt is -1 as long as there is none).
WinNext(w, key, currentData, now, config) ==
    IF currentData = NoRecord
    THEN [k \in DOMAIN w \cup {key} |->
            IF k = key
            THEN [resetAt |-> now + config.windowMs, n |-> 1, rejAt |-> -1, rejHeaders |-> NoHeaders]
            ELSE w[k]]
    ELSE IF key \in DOMAIN w /\ now < w[key].resetAt
    THEN [w EXCEPT ![key].n = @ + 1]
    ELSE [k \in DOMAIN w \ {key} |-> w[k]]

WinIdx(w, key) == IF key \in DOMAIN w THEN w[key].n ELSE 0

WinRejected(w, key, now, headers) ==
    IF key \in DOMAIN w THEN [w EXCEPT ![key].rejAt = now, ![key].rejHeaders = headers] ELSE w

\* The window of a key starts when its record gets a resetAt it did not
\* have: the requests forwarded (next() called after the CACHE.put) are
\* counted from there.
Admit(a, kv, key, value) ==
    [k \in DOMAIN a \cup {key} |->
        IF k # key THEN a[k]
        ELSE IF key \in DOMAIN kv /\ key \in DOMAIN a /\ kv[key].resetAt = value.resetAt
        THEN a[key] + 1
        ELSE 1]

Replace(bag, old, new) == (bag (-) SetToBag({old})) (+) SetToBag({new})
Remove(bag, old) == bag (-) SetToBag({old})

LimiterInit ==
    /\ enabled \in BOOLEAN
    /\ cache = <<>>
    /\ handler = EmptyBag
    /\ lastCall = NoCall
    /\ win = <<>>
    /\ admitted = <<>>

\* Mutant of Skips: the flag is not looked at.
SkipsNever(flag) == FALSE

\* !c.env.ENABLE_RATE_LIMITING
Skips(flag) == ~flag

\* The middleware is entered: with rate limiting disabled it calls next()
\* at once, otherwise it computes the key and awaits CACHE.get.
Start(policy, caller) ==
    /\ BagCardinality(handler) < MaxHandlers
    /\ LET config == RateLimits[policy]
           key == KeyOf(config, caller) IN
       /\ WinIdx(win, key) < MaxChecks
       /\ IF Skips(enabled)
          THEN /\ lastCall' = [Call(Invocation("", policy, ""), "forward", 0, NoHeaders, FALSE)
                                 EXCEPT !.branch = "disabled"]
               /\ UNCHANGED handler
          ELSE /\ handler' = handler (+) SetToBag({Invocation("get", policy, key)})
               /\ lastCall' = NoCall
    /\ UNCHANGED <<enabled, cache, win, admitted>>

\* CACHE.get resolves; now = Date.now(); the branch is taken.  The 429 is
\* returned from here, the other branches await CACHE.put.
GetDone(inv) ==
    /\ BagIn(inv, handler) /\ inv.pc = "get"
    /\ LET config == RateLimits[inv.policy]
           currentData == KvGet(cache, inv.key, clock)
           branch == Branch(currentData, clock, config)
           w == WinNext(win, inv.key, currentData, clock, config)
           decided == [inv EXCEPT !.now = clock, !.read = currentData, !.branch = branch,
                                  !.idx = WinIdx(w, inv.key)] IN
       IF branch = "reject"
       THEN LET headers == RejectHeaders(currentData, clock, config) IN
            /\ cache' = StoreOnReject(cache, inv.key, currentData, clock)
            /\ lastCall' = [Call(decided, "reject", StatusTooManyRequests, headers, FALSE) EXCEPT
                               !.prevAt = IF inv.key \in DOMAIN w THEN w[inv.key].rejAt ELSE -1,
                               !.prevHeaders = IF inv.key \in DOMAIN w THEN w[inv.key].rejHeaders
                                               ELSE NoHeaders]
            /\ win' = WinRejected(w, inv.key, clock, headers)
            /\ handler' = Remove(handler, inv)
       ELSE /\ handler' = Replace(handler, inv,
                              [decided EXCEPT !.pc = "put",
                                              !.put = PutValue(branch, currentData, clock, config),
                                              !.ttl = PutTtl(branch, currentData, clock, config)])
            /\ lastCall' = NoCall
            /\ win' = w
            /\ UNCHANGED cache
    /\ UNCHANGED <<enabled, admitted>>

\* CACHE.put resolves; the headers are set and next() is called.
PutDone(inv) ==
    /\ BagIn(inv, handler) /\ inv.pc = "put"
    /\ cache' = KvPut(cache, inv.key, inv.put, inv.ttl, clock)
    /\ lastCall' = Call(inv, "forward", 0,
                        AdmitHeaders(inv.branch, inv.read, inv.now, RateLimits[inv.policy]), FALSE)
    /\ admitted' = Admit(admitted, cache, inv.key, inv.put)
    /\ handler' = Remove(handler, inv)
    /\ UNCHANGED <<enabled, win>>

\* CACHE.get or CACHE.put rejects: nothing catches it.
GetFail(inv) ==
    /\ BagIn(inv, handler) /\ inv.pc = "get"
    /\ lastCall' = Call(inv, "throw", 0, NoHeaders, TRUE)
    /\ handler' = Remove(handler, inv)
    /\ UNCHANGED <<enabled, cache, win, admitted>>

PutFail(inv) ==
    /\ BagIn(inv, handler) /\ inv.pc = "put"
    /\ lastCall' = Call(inv, "throw", 0, NoHeaders, TRUE)
    /\ handler' = Remove(handler, inv)
    /\ UNCHANGED <<enabled, cache, win, admitted>>

\* The worker is deployed again with ENABLE_RATE_LIMITING changed; the
\* store keeps what it holds.
Configure ==
    /\ handler = EmptyBag
    /\ enabled' = ~enabled
    /\ lastCall' = NoCall
    /\ UNCHANGED <<cache, handler, win, admitted>>

(***************************************************************************)
(* Specifications                                                          *)
(***************************************************************************)
Init ==
    /\ clock = 0
    /\ HubInit
    /\ LimiterInit

HubFetch == Quiet /\ Fetch /\ NoteFirst /\ UNCHANGED <<clock, limiterVars>>
HubMessage == /\ Quiet
              /\ \E ws \in Sockets, message \in InboundFrames :
                    WebSocketMessage(ws, message) /\ NoteFirst /\ UNCHANGED <<clock, limiterVars>>
HubClose == Quiet /\ \E ws \in Sockets :
                         WebSocketClose(ws) /\ NoteFirst /\ UNCHANGED <<clock, limiterVars>>
HubError == Quiet /\ \E ws \in Sockets :
                         WebSocketError(ws) /\ NoteFirst /\ UNCHANGED <<clock, limiterVars>>
HubNotify == /\ Quiet
             /\ \E workspaceId \in Workspaces, message \in NotifyMessages :
                   NotifyClients(workspaceId, message) /\ NoteFirst /\ UNCHANGED <<clock, limiterVars>>
HubBreak == Quiet /\ \E ws \in Sockets :
                         SocketBreaks(ws) /\ NoteFirst /\ UNCHANGED <<clock, limiterVars>>
HubTick == Quiet /\ Tick(MaxHubTime) /\ UNCHANGED <<hubVars, limiterVars>>
HubSettle == Settle /\ UNCHANGED <<clock, first, limiterVars>>

HubNext ==
    HubFetch \/ HubMessage \/ HubClose \/ HubError \/ HubNotify \/ HubBreak \/ HubTick \/ HubSettle

LimiterStart == \E r \in Requests : Start(r[1], r[2]) /\ UNCHANGED <<clock, hubVars>>
LimiterGetDone == \E inv \in BagToSet(handler) : GetDone(inv) /\ UNCHANGED <<clock, hubVars>>
LimiterPutDone == \E inv \in BagToSet(handler) : PutDone(inv) /\ UNCHANGED <<clock, hubVars>>
LimiterGetFail == \E inv \in BagToSet(handler) : GetFail(inv) /\ UNCHANGED <<clock, hubVars>>
LimiterPutFail == \E inv \in BagToSet(handler) : PutFail(inv) /\ UNCHANGED <<clock, hubVars>>
LimiterTick == Tick(MaxTime) /\ lastCall' = NoCall
                  /\ UNCHANGED <<hubVars, enabled, cache, handler, win, admitted>>

LimiterNext ==
    LimiterStart \/ LimiterGetDone \/ LimiterPutDone \/ LimiterGetFail \/ LimiterPutFail \/ LimiterTick

\* The checks of the limiter one after the other, the store answering.
SeqStart == /\ handler = EmptyBag
            /\ \E r \in SeqRequests : Start(r[1], r[2]) /\ UNCHANGED <<clock, hubVars>>
SeqNext == SeqStart \/ LimiterGetDone \/ LimiterPutDone \/ LimiterTick

\* The checks of three keys one after the other, for a short time, the
\* worker being deployed with and without rate limiting.
KeysStart == /\ handler = EmptyBag
             /\ \E r \in KeyRequests : Start(r[1], r[2]) /\ UNCHANGED <<clock, hubVars>>
KeysTick == Tick(MaxKeysTime) /\ lastCall' = NoCall
               /\ UNCHANGED <<hubVars, enabled, cache, handler, win, admitted>>
KeysConfigure == Configure /\ UNCHANGED <<clock, hubVars>>
KeysNext == KeysStart \/ LimiterGetDone \/ LimiterPutDone \/ KeysTick \/ KeysConfigure

Next == HubNext \/ LimiterNext \/ KeysConfigure

Spec == Init /\ [][Next]_vars
HubSpec == Init /\ [][HubNext]_vars
LimiterSpec == Init /\ [][LimiterNext]_vars
SeqLimiterSpec == Init /\ [][SeqNext]_vars
KeysLimiterSpec == Init /\ [][KeysNext]_vars

(***************************************************************************)
(* Properties of the hub.  They read the last operation (lastOp), the      *)
(* registry as that operation found it (lastOp.pre) and the ws.send calls  *)
(* it made (sent).                                                         *)
(***************************************************************************)
Registered(w) == w \in DOMAIN lastOp.pre
TenantOf(w) == lastOp.pre[w].workspaceId
Attempts(w) == Len(sent[w])
CountType(w, t) == Cardinality({i \in 1..Len(sent[w]) : sent[w][i].frame.type = t})

\* The socket w received the fanned-out message: a send of a frame with the
\* type and the payload of the message succeeded.
Received(w, data) ==
    \E i \in 1..Len(sent[w]) :
        /\ sent[w][i].ok
        /\ sent[w][i].frame.type = data.type
        /\ sent[w][i].frame.payload = data.payload

IsNotifyOp == lastOp.op = "notify"
IsBroadcastOp ==
    /\ lastOp.op = "message"
    /\ Registered(lastOp.ws)
    /\ IsBroadcast(lastOp.message)
SameTenantAsSender(w) == Registered(w) /\ TenantOf(w) = TenantOf(lastOp.ws)

\* C1: Isolation.  A notify(T, m) sends no frame to a session whose bound
\* workspace differs from T, whatever the registry holds.
C1_NotifyIsolation ==
    IsNotifyOp =>
        \A w \in Sockets : (Registered(w) /\ TenantOf(w) # lastOp.arg) => Attempts(w) = 0

\* C1 witness: notify("W1", m) reached two sessions of W1 while a session of
\* W2 was registered.
C1_Witness ==
    /\ IsNotifyOp /\ lastOp.arg = "W1"
    /\ Cardinality({w \in Sockets : Registered(w) /\ TenantOf(w) = "W1"
                                     /\ Received(w, lastOp.data)}) = 2
    /\ \E w \in Sockets : Registered(w) /\ TenantOf(w) = "W2"

\* C2 as stated: a broadcast frame of a registered session is received by
\* every session of the sender's workspace registered at that moment, the
\* sender included, and by no session of another workspace.
C2_BroadcastReceivedByAll ==
    IsBroadcastOp =>
        \A w \in Sockets :
            /\ SameTenantAsSender(w) => Received(w, lastOp.data)
            /\ ~SameTenantAsSender(w) => Attempts(w) = 0

\* C2 amended: a broadcast frame of a registered session is sent exactly
\* once to every session of the sender's workspace registered at that
\* moment, the sender included, and is received by each of them whose send
\* does not fail; a session whose send fails receives nothing and leaves
\* the registry; no session of another workspace is sent anything.
C2_BroadcastReceivedUnlessSendFails ==
    IsBroadcastOp =>
        \A w \in Sockets :
            /\ SameTenantAsSender(w) =>
                  /\ Attempts(w) = 1
                  /\ sent[w][1].frame.type = "broadcast"
                  /\ sent[w][1].frame.payload = lastOp.data.payload
                  /\ sent[w][1].ok <=> conn[w] = "open"
                  /\ sent[w][1].ok <=> Received(w, lastOp.data)
                  /\ sent[w][1].ok <=> w \in DOMAIN sessions
            /\ ~SameTenantAsSender(w) =>
                  /\ Attempts(w) = 0
                  /\ Registered(w) => (w \in DOMAIN sessions /\ sessions[w] = lastOp.pre[w])

\* C2 witness: the sender and another session of its workspace received the
\* broadcast while a session of another workspace was registered.
C2_Witness ==
    /\ IsBroadcastOp
    /\ Received(lastOp.ws, lastOp.data)
    /\ \E w \in Sockets \ {lastOp.ws} : SameTenantAsSender(w) /\ Received(w, lastOp.data)
    /\ \E w \in Sockets : Registered(w) /\ ~SameTenantAsSender(w)

\* C2 witness of the failing send: one session of the sender's workspace
\* received the broadcast and another one, whose send failed, did not.
C2_WitnessFailedSend ==
    /\ IsBroadcastOp
    /\ \E w \in Sockets : SameTenantAsSender(w) /\ Received(w, lastOp.data)
    /\ \E w \in Sockets : SameTenantAsSender(w) /\ ~Received(w, lastOp.data)

\* The frame names a workspace other than the one its sender is bound to.
NamesOtherTenant ==
    /\ "workspaceId" \in DOMAIN lastOp.data
    /\ lastOp.data.workspaceId # TenantOf(lastOp.ws)

\* C3: the recipients of an inbound broadcast frame are exactly the sessions
\* bound to the sender's workspace; a frame that names another workspace in
\* its own fields is sent to no session of the workspace it names.
C3_SenderTenantAuthoritative ==
    IsBroadcastOp =>
        /\ {w \in Sockets : Attempts(w) > 0} = {w \in Sockets : SameTenantAsSender(w)}
        /\ NamesOtherTenant =>
              \A w \in Sockets :
                  (Registered(w) /\ TenantOf(w) = lastOp.data.workspaceId) => Attempts(w) = 0

\* C3 witness: a frame naming W2, sent by a session of W1, was received by
\* the sender and by another session of W1 while a session of W2 was
\* registered.
C3_Witness ==
    /\ IsBroadcastOp /\ NamesOtherTenant /\ TenantOf(lastOp.ws) = "W1"
    /\ Received(lastOp.ws, lastOp.data)
    /\ \E w \in Sockets \ {lastOp.ws} : SameTenantAsSender(w) /\ Received(w, lastOp.data)
    /\ \E w \in Sockets : Registered(w) /\ TenantOf(w) = lastOp.data.workspaceId

\* The last operation handled a ping frame of a registered session.
IsPingOp ==
    /\ lastOp.op = "message"
    /\ Registered(lastOp.ws)
    /\ lastOp.message.isString
    /\ ~ThrowsOnType(JsonParse(lastOp.message.text))
    /\ TypeOf(JsonParse(lastOp.message.text)) = "ping"

\* C4: a ping frame of a session yields exactly one pong frame, sent to
\* that session, and no frame to any other session; the pong is the first
\* frame sent, carries the hub's clock and is the only frame the sender
\* gets when its socket takes the send.
C4_PingYieldsOnePong ==
    IsPingOp =>
        /\ CountType(lastOp.ws, "pong") = 1
        /\ sent[lastOp.ws][1].frame = [type |-> "pong", timestamp |-> lastOp.now]
        /\ sent[lastOp.ws][1].ok => Attempts(lastOp.ws) = 1
        /\ \A w \in Sockets \ {lastOp.ws} : Attempts(w) = 0
        /\ sessions = lastOp.pre

\* C4 witness: a ping was answered by a pong that its sender received while
\* another session of the same workspace was registered.
C4_Witness ==
    /\ IsPingOp
    /\ sent[lastOp.ws][1].ok
    /\ \E w \in Sockets \ {lastOp.ws} : SameTenantAsSender(w)

IsCloseOp == lastOp.op \in {"close", "error"}

\* C5: webSocketClose and webSocketError are idempotent.  Closing removes
\* at most the entry of the closed socket and changes no other entry;
\* closing a socket that has no entry any more leaves the registry as it is.
C5_CloseIdempotent ==
    IsCloseOp =>
        /\ lastOp.ws \notin DOMAIN sessions
        /\ DOMAIN sessions \subseteq DOMAIN lastOp.pre
        /\ Cardinality(DOMAIN lastOp.pre) - Cardinality(DOMAIN sessions) \in {0, 1}
        /\ \A w \in DOMAIN lastOp.pre \ {lastOp.ws} : w \in DOMAIN sessions /\ sessions[w] = lastOp.pre[w]
        /\ ~Registered(lastOp.ws) => sessions = lastOp.pre

\* C5 witness: a socket whose entry was already removed is closed again
\* while other sessions are registered.
C5_Witness ==
    /\ IsCloseOp
    /\ ~Registered(lastOp.ws)
    /\ Cardinality(DOMAIN lastOp.pre) = 2
    /\ sessions = lastOp.pre

IsFetchOp == lastOp.op = "fetch"

\* The registry is as the last operation found it and no ws.send was called.
NothingDone ==
    /\ sessions = lastOp.pre
    /\ \A w \in Sockets : Attempts(w) = 0

\* C17: fetch rejects before it creates anything.  A request whose Upgrade
\* header is not "websocket" gets 426; an upgrade request whose agentId or
\* workspaceId is missing or empty gets 400; in both cases the registry is
\* as before and no frame is sent.
C17_RejectCreatesNothing ==
    IsFetchOp =>
        /\ lastOp.data.upgrade # "websocket" =>
              (lastOp.status = StatusUpgradeRequired /\ NothingDone)
        /\ (/\ lastOp.data.upgrade = "websocket"
            /\ \/ lastOp.data.agentId \in {Absent, ""}
               \/ lastOp.data.workspaceId \in {Absent, ""}) =>
              (lastOp.status = StatusBadRequest /\ NothingDone)

\* C17 witness: an upgrade request with an empty agentId is rejected with
\* 400 while a session is registered.
C17_Witness ==
    /\ IsFetchOp
    /\ lastOp.data.upgrade = "websocket"
    /\ lastOp.data.agentId = ""
    /\ lastOp.status = StatusBadRequest
    /\ lastOp.pre # <<>>

\* C17 witness of the other rejection: a request that is no upgrade, with
\* both parameters, is rejected with 426.
C17_WitnessNoUpgrade ==
    /\ IsFetchOp
    /\ lastOp.data.upgrade = Absent
    /\ lastOp.data.agentId = "A1" /\ lastOp.data.workspaceId = "W1"
    /\ lastOp.status = StatusUpgradeRequired
    /\ lastOp.pre # <<>>

IsAcceptOp == IsFetchOp /\ lastOp.status = StatusSwitching

\* C18: an accepted fetch adds one entry to the registry, for a socket that
\* had none, bound to the agentId and the workspaceId of the request, and
\* changes no other entry; the new socket is sent one frame, of type
\* connected with the same workspaceId and agentId, and no other socket is
\* sent anything.
C18_AcceptRegistersAndGreets ==
    IsAcceptOp =>
        /\ ~Registered(lastOp.ws)
        /\ DOMAIN sessions = DOMAIN lastOp.pre \cup {lastOp.ws}
        /\ \A w \in DOMAIN lastOp.pre : sessions[w] = lastOp.pre[w]
        /\ sessions[lastOp.ws].agentId = lastOp.data.agentId
        /\ sessions[lastOp.ws].workspaceId = lastOp.data.workspaceId
        /\ Attempts(lastOp.ws) = 1
        /\ sent[lastOp.ws][1].frame.type = "connected"
        /\ sent[lastOp.ws][1].frame.payload.agentId = lastOp.data.agentId
        /\ sent[lastOp.ws][1].frame.payload.workspaceId = lastOp.data.workspaceId
        /\ sent[lastOp.ws][1].ok
        /\ \A w \in Sockets \ {lastOp.ws} : Attempts(w) = 0

\* C18 witness: agent A2 of W1 is accepted while a session of W1 and a
\* session of W2 are registered.
C18_Witness ==
    /\ IsAcceptOp
    /\ lastOp.data.agentId = "A2" /\ lastOp.data.workspaceId = "W1"
    /\ \E w \in Sockets : Registered(w) /\ TenantOf(w) = "W1"
    /\ \E w \in Sockets : Registered(w) /\ TenantOf(w) = "W2"
    /\ sent[lastOp.ws][1].ok

\* The last operation handled a text frame of a registered session that
\* JSON.parse does not take.
IsUnparseableOp ==
    /\ lastOp.op = "message"
    /\ Registered(lastOp.ws)
    /\ lastOp.message.isString
    /\ JsonParse(lastOp.message.text).kind = "throw"

\* C19: an unparseable frame of a registered session yields one frame, of
\* type error, sent to that session; no other session is sent anything and
\* the registry is as before, the sender's entry included.
C19_UnparseableYieldsOneError ==
    IsUnparseableOp =>
        /\ Attempts(lastOp.ws) = 1
        /\ sent[lastOp.ws][1].frame.type = "error"
        /\ sent[lastOp.ws][1].ok <=> conn[lastOp.ws] = "open"
        /\ \A w \in Sockets \ {lastOp.ws} : Attempts(w) = 0
        /\ sessions = lastOp.pre
        /\ lastOp.ws \in DOMAIN sessions

\* C19 witness: the error frame reached the sender of an unparseable frame
\* while another session of its workspace was registered.
C19_Witness ==
    /\ IsUnparseableOp
    /\ sent[lastOp.ws][1].ok
    /\ \E w \in Sockets \ {lastOp.ws} : SameTenantAsSender(w)

IsFanOut == IsNotifyOp \/ IsBroadcastOp

\* A send of the last operation to the socket w failed.
SendFailed(w) == \E i \in 1..Len(sent[w]) : ~sent[w][i].ok

\* C20: a session whose send fails during a fan-out has no entry in the
\* registry when the fan-out ends; a fan-out sends to sockets that have an
\* entry only, so a later one does not send to it.
C20_FailedSendEvicts ==
    IsFanOut =>
        /\ \A w \in Sockets : SendFailed(w) => w \notin DOMAIN sessions
        /\ \A w \in Sockets : Attempts(w) > 0 => Registered(w)

\* C20 witness: a fan-out in which the send to one session failed and the
\* send to another one of the workspace succeeded.
C20_Witness ==
    /\ IsFanOut
    /\ \E w \in Sockets : SendFailed(w) /\ w \notin DOMAIN sessions
    /\ \E w \in Sockets : Attempts(w) = 1 /\ sent[w][1].ok /\ w \in DOMAIN sessions

\* The workspace of the last fan-out: the one notifyClients was called
\* with, or the one of the sender of the broadcast frame.
FanOutScope == IF IsNotifyOp THEN lastOp.arg ELSE TenantOf(lastOp.ws)
InScope(w) == Registered(w) /\ TenantOf(w) = FanOutScope

\* C21: a send that fails during a fan-out stays inside it.  Every session
\* of the workspace whose own send does not fail receives the message, all
\* the others when one send fails; the operation ends without an exception;
\* no socket is sent to more than once.
C21_SendFailureContained ==
    (IsFanOut /\ \E w \in Sockets : SendFailed(w)) =>
        /\ \A w \in Sockets : (InScope(w) /\ conn[w] = "open") => Received(w, lastOp.data)
        /\ Cardinality({w \in Sockets : SendFailed(w)}) = 1 =>
              \A w \in Sockets : (InScope(w) /\ ~SendFailed(w)) => Received(w, lastOp.data)
        /\ ~lastOp.threw
        /\ \A w \in Sockets : Attempts(w) <= 1

\* C21 witness: the send to one of three sessions of a workspace failed and
\* the two others received the message.
C21_Witness ==
    /\ IsFanOut
    /\ Cardinality({w \in Sockets : InScope(w)}) = 3
    /\ Cardinality({w \in Sockets : SendFailed(w)}) = 1
    /\ Cardinality({w \in Sockets : InScope(w) /\ Received(w, lastOp.data)}) = 2

\* C22: notifyClients for a workspace without a session ends without an
\* exception, sends nothing to any socket and leaves the registry as it is.
C22_NotifyNobody ==
    (IsNotifyOp /\ ~\E w \in Sockets : Registered(w) /\ TenantOf(w) = lastOp.arg) =>
        /\ \A w \in Sockets : Attempts(w) = 0
        /\ sessions = lastOp.pre
        /\ ~lastOp.threw

\* C22 witness: notifyClients("W2", m) while the registry holds sessions of
\* W1 only.
C22_Witness ==
    /\ IsNotifyOp /\ lastOp.arg = "W2"
    /\ Cardinality(DOMAIN lastOp.pre) = 2
    /\ \A w \in DOMAIN lastOp.pre : TenantOf(w) = "W1"
    /\ sessions = lastOp.pre

\* C23: every frame a fan-out delivers has a workspaceId field, and it is
\* the workspace of the session it is delivered to, whatever the message
\* carried.
C23_DeliveredFrameNamesTenant ==
    IsFanOut =>
        \A w \in Sockets : \A i \in 1..Len(sent[w]) :
            sent[w][i].ok =>
                /\ "workspaceId" \in DOMAIN sent[w][i].frame
                /\ sent[w][i].frame.workspaceId = TenantOf(w)

\* What the code does: the delivered frame has the fields of the message
\* and no others but timestamp; workspaceId is there when the message had
\* it, with the value the message had.
C23_DeliveredFrameKeepsFields ==
    IsFanOut =>
        \A w \in Sockets : \A i \in 1..Len(sent[w]) :
            /\ DOMAIN sent[w][i].frame = DOMAIN lastOp.data \cup {"timestamp"}
            /\ "workspaceId" \in DOMAIN lastOp.data =>
                  sent[w][i].frame.workspaceId = lastOp.data.workspaceId

\* The message of the last fan-out came with a timestamp of its own.
CameStamped == "timestamp" \in DOMAIN lastOp.data

\* C24: the timestamp of every frame a fan-out delivers is the clock of the
\* hub when it runs, also when the message came with a timestamp.
C24_HubStampsFrames ==
    IsFanOut =>
        \A w \in Sockets : \A i \in 1..Len(sent[w]) :
            /\ "timestamp" \in DOMAIN sent[w][i].frame
            /\ sent[w][i].frame.timestamp = clock
            /\ sent[w][i].frame.timestamp = lastOp.now

\* C24 witness: a message that came with the timestamp 7 was delivered
\* with the clock of the hub, which had moved on.
C24_Witness ==
    /\ IsFanOut /\ CameStamped
    /\ lastOp.data.timestamp # clock
    /\ clock > 0
    /\ \E w \in Sockets : Attempts(w) = 1 /\ sent[w][1].ok /\ sent[w][1].frame.timestamp = clock

\* C25: one hub holds the sessions of one workspace: all entries of the
\* registry name the same workspaceId.
C25_OneTenantPerHub ==
    \A v, w \in DOMAIN sessions : sessions[v].workspaceId = sessions[w].workspaceId

\* The value JSON.parse gave for the text frame of the last operation.
ParsedOp == JsonParse(lastOp.message.text)

\* The last operation handled a text frame of a registered session that
\* parsed to an object of the given type.
IsTypedOp(type) ==
    /\ lastOp.op = "message"
    /\ Registered(lastOp.ws)
    /\ lastOp.message.isString
    /\ ~ThrowsOnType(ParsedOp)
    /\ TypeOf(ParsedOp) = type

\* C26: a subscribe frame yields one subscribed frame, the first frame sent
\* to its sender, with the payload of the subscribe frame as it came (none
\* when it came without); nothing is sent to another socket and the
\* registry, which alone decides who a later fan-out reaches, is as before.
C26_SubscribeEchoes ==
    IsTypedOp("subscribe") =>
        /\ CountType(lastOp.ws, "subscribed") = 1
        /\ sent[lastOp.ws][1].frame.type = "subscribed"
        /\ sent[lastOp.ws][1].frame.timestamp = lastOp.now
        /\ IF "payload" \in DOMAIN ParsedOp.obj
           THEN /\ "payload" \in DOMAIN sent[lastOp.ws][1].frame
                /\ sent[lastOp.ws][1].frame.payload = ParsedOp.obj.payload
           ELSE "payload" \notin DOMAIN sent[lastOp.ws][1].frame
        /\ sent[lastOp.ws][1].ok => Attempts(lastOp.ws) = 1
        /\ \A w \in Sockets \ {lastOp.ws} : Attempts(w) = 0
        /\ sessions = lastOp.pre

\* C26 witness: a subscribe frame with the payload "tickets" was echoed to
\* its sender while another session of the workspace was registered.
C26_Witness ==
    /\ IsTypedOp("subscribe")
    /\ "payload" \in DOMAIN ParsedOp.obj
    /\ sent[lastOp.ws][1].ok
    /\ sent[lastOp.ws][1].frame.payload = "tickets"
    /\ \E w \in Sockets \ {lastOp.ws} : SameTenantAsSender(w)

\* The types webSocketMessage has a case for.
KnownTypes == {"ping", "subscribe", "broadcast"}

\* The last operation handled a text frame of a registered session that
\* parsed to a value whose type is none of the known ones.
IsUnknownTypeOp ==
    /\ lastOp.op = "message"
    /\ Registered(lastOp.ws)
    /\ lastOp.message.isString
    /\ ~ThrowsOnType(ParsedOp)
    /\ TypeOf(ParsedOp) \notin KnownTypes

\* C27: a frame that parses and has an unrecognized type does nothing: no
\* frame is sent to any socket, no exception leaves the handler and the
\* registry is as before.
C27_UnknownTypeIgnored ==
    IsUnknownTypeOp =>
        /\ \A w \in Sockets : Attempts(w) = 0
        /\ sessions = lastOp.pre
        /\ ~lastOp.threw

\* C27 witness: a frame of type "typing" was ignored while two sessions of
\* the sender's workspace were registered.
C27_Witness ==
    /\ IsUnknownTypeOp
    /\ TypeOf(ParsedOp) = "typing"
    /\ Cardinality({w \in Sockets : SameTenantAsSender(w)}) = 2
    /\ \A w \in Sockets : Attempts(w) = 0

\* The last operation handled a text frame of a registered session that
\* is answered on the sender's socket: a ping, a subscribe, or a frame the
\* try block throws on.
IsDirectReplyOp ==
    /\ lastOp.op = "message"
    /\ Registered(lastOp.ws)
    /\ lastOp.message.isString
    /\ \/ ThrowsOnType(ParsedOp)
       \/ TypeOf(ParsedOp) \in {"ping", "subscribe"}

\* C29: webSocketMessage ends without an exception, also when the send of
\* its reply (pong, subscribed or error) to the sender fails.
C29_NoExceptionEscapes ==
    IsDirectReplyOp => ~lastOp.threw

\* What the code does: the exception of a failing reply leaves the handler,
\* after a second failing send (of the error frame) when the reply was sent
\* from the try block; a reply that is taken leaves none.
C29_EscapesWhenReplyFails ==
    IsDirectReplyOp =>
        /\ lastOp.threw <=> conn[lastOp.ws] # "open"
        /\ lastOp.threw => \A i \in 1..Attempts(lastOp.ws) : ~sent[lastOp.ws][i].ok
        /\ (lastOp.threw /\ ~ThrowsOnType(ParsedOp)) =>
              /\ Attempts(lastOp.ws) = 2
              /\ sent[lastOp.ws][2].frame.type = "error"

\* C30: the agentId and the workspaceId of a session do not change as long
\* as its entry is in the registry: every entry that an operation found and
\* left in the registry is bound as it was, whatever the operation.
C30_IdentityImmutable ==
    \A w \in DOMAIN lastOp.pre \cap DOMAIN sessions :
        /\ sessions[w].agentId = lastOp.pre[w].agentId
        /\ sessions[w].workspaceId = lastOp.pre[w].workspaceId

\* C30 witness: the session of agent A1 in W1 is bound as before after a
\* fan-out in its workspace that evicted another session.
C30_Witness ==
    /\ IsFanOut /\ FanOutScope = "W1"
    /\ \E w \in Sockets : SendFailed(w) /\ w \notin DOMAIN sessions
    /\ \E w \in DOMAIN lastOp.pre \cap DOMAIN sessions :
          /\ sessions[w] = [agentId |-> "A1", workspaceId |-> "W1"]
          /\ lastOp.pre[w] = sessions[w]

\* C31: no connection is left without an entry: when the hub has removed
\* a session, on close, on error or after a failed send, its socket is
\* released, so every socket the hub accepted and that is not closed has an
\* entry in the registry.
C31_NoConnectionWithoutEntry ==
    \A w \in Sockets : conn[w] # "none" => w \in DOMAIN sessions

\* What the code does: it deletes the entry and leaves the socket alone.  A
\* socket that still takes sends has its entry, because the hub deletes an
\* entry only after an error event or a send that threw; a socket it
\* evicted stays accepted, without an entry, until its close event.
C31_SendableHasEntry ==
    \A w \in Sockets : conn[w] = "open" => w \in DOMAIN sessions

\* C32: a fan-out runs to its end in one go: it calls ws.send once for
\* every session of its workspace that was registered when it started, for
\* no other socket, also when it deletes entries on its way, and returns.
C32_OneAttemptEach ==
    IsFanOut =>
        /\ \A w \in Sockets : Attempts(w) = IF InScope(w) THEN 1 ELSE 0
        /\ DOMAIN sessions = DOMAIN lastOp.pre \ {w \in Sockets : SendFailed(w)}
        /\ ~lastOp.threw

\* C32 witness: the entry of a session was deleted in the middle of the
\* fan-out: a session before it and a session after it got their send.
C32_Witness ==
    /\ IsFanOut
    /\ \E u, v, w \in Sockets :
          /\ u < v /\ v < w
          /\ InScope(u) /\ InScope(v) /\ InScope(w)
          /\ Received(u, lastOp.data) /\ SendFailed(v) /\ Received(w, lastOp.data)
          /\ v \notin DOMAIN sessions

\* The last operation was a frame arriving on a socket that had no entry
\* in the registry.
IsOrphanFrameOp == lastOp.op = "message" /\ ~Registered(lastOp.ws)

\* C36: a frame that arrives on a socket without an entry in the registry
\* is ignored: no send is made to any socket, neither a reply nor a
\* fan-out, the registry is as before and the handler ends without an
\* exception.
C36_OrphanFrameIgnored ==
    IsOrphanFrameOp => (NothingDone /\ ~lastOp.threw)

\* C36 witness: a broadcast frame arrives on a socket that lost its entry
\* while other sessions are registered with open sockets.
C36_Witness ==
    /\ IsOrphanFrameOp
    /\ IsBroadcast(lastOp.message)
    /\ \E w \in DOMAIN sessions : conn[w] = "open"
    /\ NothingDone

\* C37: a fan-out in one workspace leaves the entries of the other
\* workspaces alone: every session registered for another workspace is
\* still registered, with the same entry, when the fan-out ends.
C37_OtherTenantsUntouched ==
    IsFanOut =>
        \A w \in Sockets :
            (Registered(w) /\ TenantOf(w) # FanOutScope) =>
                /\ w \in DOMAIN sessions
                /\ sessions[w] = lastOp.pre[w]

\* C37 witness: a send of the fan-out failed and its session was deleted,
\* while a session of another workspace whose socket is broken as well kept
\* its entry.
C37_Witness ==
    /\ IsFanOut
    /\ \E v, w \in Sockets :
          /\ InScope(v) /\ SendFailed(v) /\ v \notin DOMAIN sessions
          /\ Registered(w) /\ TenantOf(w) # FanOutScope
          /\ conn[w] = "broken" /\ w \in DOMAIN sessions

\* The last operation was a frame that is not a string, arriving on a
\* socket that had an entry in the registry.
IsBinaryFrameOp ==
    lastOp.op = "message" /\ Registered(lastOp.ws) /\ ~lastOp.message.isString

\* C39: a binary frame of a registered session has no effect: no send is
\* made to any socket, neither an error frame nor a fan-out, the registry is
\* as before and the handler ends without an exception.
C39_BinaryFrameIgnored ==
    IsBinaryFrameOp => (NothingDone /\ ~lastOp.threw)

\* C39 witness: the binary frame came from a session with an open socket
\* while another session of its workspace was registered with an open socket.
C39_Witness ==
    /\ IsBinaryFrameOp
    /\ conn[lastOp.ws] = "open"
    /\ \E w \in DOMAIN sessions \ {lastOp.ws} :
          /\ conn[w] = "open"
          /\ sessions[w].workspaceId = TenantOf(lastOp.ws)
    /\ NothingDone

\* C38: the first frame delivered on a connection is the `connected`
\* acknowledgement of its own session, with the workspace and the agent the
\* session was registered with; no reply and no fanned-out message is
\* delivered before it, and a session whose socket is open has had its
\* acknowledgement delivered.
C38_ConnectedFirst ==
    /\ \A w \in Sockets :
          first[w] # <<>> =>
              /\ first[w][1].type = "connected"
              /\ w \in DOMAIN sessions =>
                    /\ first[w][1].payload.workspaceId = sessions[w].workspaceId
                    /\ first[w][1].payload.agentId = sessions[w].agentId
    /\ \A w \in DOMAIN sessions : conn[w] = "open" => first[w] # <<>>

\* C38 witness: a fan-out delivers its message to two sessions of different
\* agents, and each of them had its own acknowledgement first.
C38_Witness ==
    /\ IsFanOut
    /\ \E v, w \in Sockets :
          /\ v # w
          /\ InScope(v) /\ InScope(w)
          /\ Received(v, lastOp.data) /\ Received(w, lastOp.data)
          /\ first[v][1].type = "connected" /\ first[w][1].type = "connected"
          /\ first[v][1].payload.agentId # first[w][1].payload.agentId

(***************************************************************************)
(* Properties of the limiter.  They read the invocation that ended in the  *)
(* last step (lastCall): what it read, the branch it took, its response,   *)
(* and the store before that step (lastCall.pre) and after it (cache).     *)
(***************************************************************************)
Decided == lastCall.outcome \in {"forward", "reject"} /\ lastCall.branch # "disabled"
LimitOf(call) == RateLimits[call.policy].maxRequests
WindowOf(call) == RateLimits[call.policy].windowMs
HasHeader(call, name) == name \in DOMAIN call.headers

\* C6: the checks of a fresh key that follow one another inside the window
\* its first check opened: the first `limit` of them are forwarded with
\* X-RateLimit-Remaining limit-1, ..., 0, those after them are rejected
\* with X-RateLimit-Remaining 0.
C6_SequentialCountdown ==
    (Decided /\ lastCall.idx >= 1) =>
        IF lastCall.idx <= LimitOf(lastCall)
        THEN /\ lastCall.outcome = "forward"
             /\ HasHeader(lastCall, "XRateLimitRemaining")
             /\ lastCall.headers.XRateLimitRemaining = ToString(LimitOf(lastCall) - lastCall.idx)
        ELSE /\ lastCall.outcome = "reject"
             /\ lastCall.headers.XRateLimitRemaining = "0"

\* C6 witness: the check number limit+1 of a window of the api policy is
\* rejected.
C6_Witness ==
    /\ Decided /\ lastCall.policy = "api"
    /\ lastCall.idx = ApiLimit + 1
    /\ lastCall.outcome = "reject"
    /\ lastCall.read.count = ApiLimit

\* C7: a check at now >= resetAt, now = resetAt included, treats the record
\* it read as absent: it is forwarded and the record becomes count = 1,
\* resetAt = now + windowMs, whatever the count it read.
C7_ExpiredAtResetTime ==
    (Decided /\ lastCall.read # NoRecord /\ lastCall.now >= lastCall.read.resetAt) =>
        /\ lastCall.outcome = "forward"
        /\ lastCall.key \in DOMAIN cache
        /\ cache[lastCall.key].count = 1
        /\ cache[lastCall.key].resetAt = lastCall.now + WindowOf(lastCall)

\* What the code does: the same for now > resetAt only.
C7_ExpiredAfterResetTime ==
    (Decided /\ lastCall.read # NoRecord /\ lastCall.now > lastCall.read.resetAt) =>
        /\ lastCall.outcome = "forward"
        /\ lastCall.key \in DOMAIN cache
        /\ cache[lastCall.key].count = 1
        /\ cache[lastCall.key].resetAt = lastCall.now + WindowOf(lastCall)

IsReject == lastCall.outcome = "reject"

\* The headers of a rejection but Retry-After.
SteadyHeaders(headers) ==
    <<headers.XRateLimitLimit, headers.XRateLimitRemaining, headers.XRateLimitReset>>

\* C8: a rejected check writes nothing: the store after it is the store
\* before it, the record of its key has the count and the resetAt it read.
\* Two rejections that follow one another in a window report the same
\* limit, remaining and reset, and each a Retry-After that is the rest of
\* the window at its own time, in seconds rounded up.
C8_RejectWritesNothing ==
    IsReject =>
        /\ cache = lastCall.pre
        /\ lastCall.key \in DOMAIN cache
        /\ cache[lastCall.key].count = lastCall.read.count
        /\ cache[lastCall.key].resetAt = lastCall.read.resetAt
        /\ lastCall.headers.RetryAfter =
              ToString(Ceil(cache[lastCall.key].resetAt - lastCall.now, MsPerSecond))
        /\ lastCall.prevAt >= 0 =>
              /\ SteadyHeaders(lastCall.prevHeaders) = SteadyHeaders(lastCall.headers)
              /\ lastCall.prevHeaders.RetryAfter =
                    ToString(Ceil(cache[lastCall.key].resetAt - lastCall.prevAt, MsPerSecond))

\* C8 witness: the second of two rejections in one window, half a second
\* after the first.
C8_Witness ==
    /\ IsReject
    /\ lastCall.prevAt >= 0
    /\ lastCall.now > lastCall.prevAt
    /\ lastCall.read.count = LimitOf(lastCall)

\* C9: a store call that fails does not fail the check: the request is
\* forwarded to the downstream handler.
C9_FailOpen ==
    lastCall.storeError => lastCall.outcome = "forward"

\* C10: every decision of the limiter carries X-RateLimit-Limit,
\* X-RateLimit-Remaining and X-RateLimit-Reset, whichever branch took it;
\* a rejection has status 429 and Retry-After in addition.
C10_HeadersOnEveryDecision ==
    Decided =>
        /\ HasHeader(lastCall, "XRateLimitLimit")
        /\ HasHeader(lastCall, "XRateLimitRemaining")
        /\ HasHeader(lastCall, "XRateLimitReset")
        /\ IsReject => (lastCall.status = StatusTooManyRequests /\ HasHeader(lastCall, "RetryAfter"))

\* What the code does: the headers are there on every decision but the
\* reset of an expired record.
C10_HeadersButOnReset ==
    (Decided /\ lastCall.branch # "reset") =>
        /\ HasHeader(lastCall, "XRateLimitLimit")
        /\ HasHeader(lastCall, "XRateLimitRemaining")
        /\ HasHeader(lastCall, "XRateLimitReset")
        /\ IsReject => (lastCall.status = StatusTooManyRequests /\ HasHeader(lastCall, "RetryAfter"))

\* The record an ended check read is current for the code: it is there and
\* the clock has not passed its resetAt.
ReadCurrent == lastCall.read # NoRecord /\ lastCall.now <= lastCall.read.resetAt

\* The greatest Retry-After of the model, in seconds.
MaxRetryAfter == Ceil(WindowMs, MsPerSecond)

\* C11: a check that reads a current record with count >= limit is rejected
\* with status 429, X-RateLimit-Remaining 0, X-RateLimit-Reset the resetAt
\* of the record, and Retry-After the least whole number of seconds that
\* covers resetAt - now.
C11_RejectAtLimit ==
    (Decided /\ ReadCurrent /\ lastCall.read.count >= LimitOf(lastCall)) =>
        /\ lastCall.outcome = "reject"
        /\ lastCall.status = StatusTooManyRequests
        /\ lastCall.headers.XRateLimitRemaining = "0"
        /\ lastCall.headers.XRateLimitReset = ToString(lastCall.read.resetAt)
        /\ \E r \in 0..MaxRetryAfter :
              /\ lastCall.headers.RetryAfter = ToString(r)
              /\ r * MsPerSecond >= lastCall.read.resetAt - lastCall.now
              /\ (r - 1) * MsPerSecond < lastCall.read.resetAt - lastCall.now

\* C11 witness: a rejection half a window before the resetAt of the record,
\* a time that is no whole number of seconds.
C11_Witness ==
    /\ Decided /\ ReadCurrent /\ lastCall.read.count >= LimitOf(lastCall)
    /\ lastCall.outcome = "reject"
    /\ (lastCall.read.resetAt - lastCall.now) % MsPerSecond # 0
    /\ lastCall.headers.RetryAfter = "1"

\* C12: a check that reads a current record with count < limit is forwarded
\* with X-RateLimit-Remaining limit - count - 1, and its write stores
\* count + 1 with the resetAt it read.
C12_IncrementKeepsWindow ==
    (Decided /\ ReadCurrent /\ lastCall.read.count < LimitOf(lastCall)) =>
        /\ lastCall.outcome = "forward"
        /\ HasHeader(lastCall, "XRateLimitRemaining")
        /\ lastCall.headers.XRateLimitRemaining =
              ToString(LimitOf(lastCall) - lastCall.read.count - 1)
        /\ lastCall.key \in DOMAIN cache
        /\ cache[lastCall.key].count = lastCall.read.count + 1
        /\ cache[lastCall.key].resetAt = lastCall.read.resetAt

\* C12 witness: the second check of a window of the api policy, written
\* after the clock has moved on.
C12_Witness ==
    /\ Decided /\ ReadCurrent /\ lastCall.policy = "api"
    /\ lastCall.read.count = 1
    /\ lastCall.now > 0
    /\ cache[lastCall.key].count = 2
    /\ lastCall.headers.XRateLimitRemaining = ToString(ApiLimit - 2)

\* The limit of the policy a key belongs to.
LimitOfKey(key) ==
    LET r == CHOOSE r \in Requests \cup SeqRequests \cup KeyRequests : KeyOf(RateLimits[r[1]], r[2]) = key
    IN RateLimits[r[1]].maxRequests

\* C13: at every instant the count stored for a key is the number of
\* requests forwarded for that key since its window started, whether the
\* checks follow one another or overlap.
C13_CountIsAdmitted ==
    \A key \in DOMAIN cache :
        /\ key \in DOMAIN admitted
        /\ cache[key].count = admitted[key]

\* C14: with at most MaxHandlers checks of a key under way at a time, at
\* most limit + MaxHandlers - 1 requests are forwarded in one window.
C14_BoundedOvershoot ==
    \A key \in DOMAIN admitted :
        admitted[key] <= LimitOfKey(key) + MaxHandlers - 1

\* The record of a key is current: the store returns it and the clock is
\* before its resetAt.
Current(kv, key, time) ==
    /\ KvGet(kv, key, time) # NoRecord
    /\ time < kv[key].resetAt

\* The store returns a record of the key that the code does not take for
\* expired.
Live(kv, key, time) ==
    /\ KvGet(kv, key, time) # NoRecord
    /\ ~Expired(KvGet(kv, key, time), time)

\* C15: whatever the interleaving of the checks of a key, every record in
\* the store has 1 <= count <= limit, no record leaves the store before its
\* resetAt, and a write to a key that had a current record leaves it with a
\* record that is not expired.
C15_NoCorruption ==
    /\ \A key \in DOMAIN cache :
          /\ 1 <= cache[key].count
          /\ cache[key].count <= LimitOfKey(key)
          /\ cache[key].expireAt >= cache[key].resetAt
    /\ (lastCall.outcome = "forward" /\ lastCall.branch # "disabled"
           /\ lastCall.key \in DOMAIN lastCall.pre
           /\ Current(lastCall.pre, lastCall.key, clock)) =>
          Live(cache, lastCall.key, clock)

\* The parts of C15 apart.
C15_CountInRange ==
    \A key \in DOMAIN cache :
        /\ 1 <= cache[key].count
        /\ cache[key].count <= LimitOfKey(key)
        /\ cache[key].expireAt >= cache[key].resetAt

\* The last step ended a check that took an admitting branch and whose
\* store calls resolved.
IsAdmit == Decided /\ lastCall.branch \in {"fresh", "reset", "increment"}

\* C16: a rejected request is not forwarded: next() is not called and the
\* 429 response is what the middleware returns.  An admitted request is
\* forwarded once, and when it is, its own write is in the store.
C16_ForwardAfterWrite ==
    /\ (Decided /\ lastCall.branch = "reject") =>
          /\ lastCall.forwards = 0
          /\ lastCall.outcome = "reject"
          /\ lastCall.status = StatusTooManyRequests
    /\ IsAdmit =>
          /\ lastCall.forwards = 1
          /\ lastCall.outcome = "forward"
          /\ lastCall.key \in DOMAIN cache
          /\ cache[lastCall.key].count = lastCall.put.count
          /\ cache[lastCall.key].resetAt = lastCall.put.resetAt

\* C16 witness: a request is forwarded after its write of the count 2 over
\* the record it read, while another check of the key is under way.
C16_Witness ==
    /\ IsAdmit /\ lastCall.branch = "increment"
    /\ lastCall.forwards = 1
    /\ cache[lastCall.key].count = 2
    /\ lastCall.pre[lastCall.key].count = 1
    /\ handler # EmptyBag

\* C16 witness of the rejection: a request is rejected and not forwarded.
C16_WitnessReject ==
    /\ Decided /\ lastCall.branch = "reject"
    /\ lastCall.forwards = 0

\* The keys of the requests of the model.
KeysOf(requests) == {KeyOf(RateLimits[r[1]], r[2]) : r \in requests}

\* C33: the budget of a key is its own.  The key a check works on belongs
\* to one policy and one identity, the ones of its request; the check reads
\* the record of that key, decides on that record alone, and leaves the
\* record of every other key as it is.
C33_KeysIndependent ==
    Decided =>
        /\ \A r \in KeyRequests :
              KeyOf(RateLimits[r[1]], r[2]) = lastCall.key =>
                  /\ r[1] = lastCall.policy
                  /\ \A q \in KeyRequests :
                        KeyOf(RateLimits[q[1]], q[2]) = lastCall.key => q = r
        /\ lastCall.read = KvGet(lastCall.pre, lastCall.key, lastCall.now)
        /\ lastCall.branch = Branch(lastCall.read, lastCall.now, RateLimits[lastCall.policy])
        /\ \A k \in (DOMAIN lastCall.pre \cup DOMAIN cache) \ {lastCall.key} :
              /\ k \in DOMAIN lastCall.pre
              /\ k \in DOMAIN cache
              /\ cache[k] = lastCall.pre[k]

\* C33 witness: the first request of agent A1 under the auth policy is
\* forwarded while the budget of A1 under the api policy and the budget of
\* the anonymous caller under the auth policy are used up.
C33_Witness ==
    /\ Decided /\ lastCall.outcome = "forward" /\ lastCall.branch = "fresh"
    /\ lastCall.key = KeyOf(RateLimits.auth, CallerAgent)
    /\ KeyOf(RateLimits.api, CallerAgent) \in DOMAIN cache
    /\ cache[KeyOf(RateLimits.api, CallerAgent)].count = ApiLimit
    /\ KeyOf(RateLimits.auth, CallerUnknown) \in DOMAIN cache
    /\ cache[KeyOf(RateLimits.auth, CallerUnknown)].count = AuthLimit
    /\ cache[lastCall.key].count = 1

\* The last step was a request that went through with rate limiting
\* disabled.
IsSkipped == lastCall.branch = "disabled"

\* C35: with ENABLE_RATE_LIMITING false a request is forwarded at once:
\* next() is called once, no check awaits the store, the store is as
\* before and the response gets no rate-limit header, whatever the store
\* holds.
C35_DisabledForwards ==
    /\ ~enabled =>
          /\ handler = EmptyBag
          /\ lastCall.outcome \in {"none", "forward"}
          /\ lastCall.outcome = "forward" => IsSkipped
    /\ IsSkipped =>
          /\ ~enabled
          /\ lastCall.outcome = "forward"
          /\ lastCall.forwards = 1
          /\ lastCall.headers = NoHeaders
          /\ cache = lastCall.pre

\* C35 witness: a request under the auth policy is forwarded with rate
\* limiting disabled while the store holds a record at the limit for every
\* key of that policy.
C35_Witness ==
    /\ IsSkipped /\ lastCall.policy = "auth"
    /\ lastCall.forwards = 1
    /\ \A k \in KeysOf({r \in KeyRequests : r[1] = "auth"}) :
          /\ Live(cache, k, clock)
          /\ cache[k].count >= AuthLimit


\* C34: the reset time stored under a key never decreases.  A check that
\* writes over a record the store still returns leaves under the key a
\* record whose windowResetAt is not earlier than the one it wrote over.
C34_ResetAtNeverDecreases ==
    (Decided /\ lastCall.outcome = "forward"
        /\ KvGet(lastCall.pre, lastCall.key, clock) # NoRecord)
        => cache[lastCall.key].resetAt >= KvGet(lastCall.pre, lastCall.key, clock).resetAt

\* What the code keeps of C34: the reset time a check writes is never
\* earlier than the one of the record that check itself had read.
C34_NotBelowOwnRead ==
    (Decided /\ lastCall.outcome = "forward" /\ lastCall.read # NoRecord)
        => cache[lastCall.key].resetAt >= lastCall.read.resetAt


\* The case C34 names: a check that had read the record of one window
\* writes when the store holds the record of a newer one, and the newer
\* record stays.
C34_StaleWriteKeepsNewer ==
    (Decided /\ lastCall.outcome = "forward" /\ lastCall.read # NoRecord
        /\ KvGet(lastCall.pre, lastCall.key, clock) # NoRecord
        /\ KvGet(lastCall.pre, lastCall.key, clock).resetAt > lastCall.read.resetAt)
        => cache[lastCall.key].resetAt = KvGet(lastCall.pre, lastCall.key, clock).resetAt

====
